---- MODULE Spec2Model ----
(***************************************************************************)
(* Model of the aba-payway SDK: the HMAC purchase signer, the RSA          *)
(* enveloped payment-link signer and the checkout URL resolver, in the     *)
(* variants the repository holds:                                          *)
(*   index  packages/aba-payway/src/index.ts  (createTransaction,          *)
(*          createPaymentLink on one shared client)                        *)
(*   p000   unnamed/part_000  (legacy createPaymentLink, console only)     *)
(*   p001   unnamed/part_001  (createCheckoutPayment, createCheckoutHash)  *)
(*   p002   unnamed/part_002  (config based client, createABACheckout)     *)
(* Strings are TLA+ strings; \o, Len and SubSeq act on them as on JS       *)
(* strings: one position per UTF-16 code unit.                             *)
(***************************************************************************)
EXTENDS Integers, Sequences, FiniteSets, TLC

VARIABLES client, env, clock, out, pending, console, remembered

vars == <<client, env, clock, out, pending, console, remembered>>

(***************************************************************************)
(* Bounds of the model.                                                    *)
(***************************************************************************)
MaxTicks == 3
MaxPending == 1

(***************************************************************************)
(* JavaScript values.  Undefined stands for an absent property / undefined *)
(* argument; no input string of the model equals it.                       *)
(***************************************************************************)
Undefined == "<absent>"

\* x || ""  (undefined and "" are falsy)
OrEmpty(v) == IF v = Undefined \/ v = "" THEN "" ELSE v

\* `${v}` : a template literal renders undefined as the text "undefined"
TemplateStr(v) == IF v = Undefined THEN "undefined" ELSE v

\* an element of Array.prototype.join: undefined and null render as ""
JoinElem(v) == IF v = Undefined THEN "" ELSE v

RECURSIVE Join(_)
\* values.join("")
Join(values) ==
  IF values = <<>> THEN "" ELSE JoinElem(Head(values)) \o Join(Tail(values))

\* !v for a string-or-undefined value
Falsy(v) == v = Undefined \/ v = ""

StartsWith(s, p) == Len(s) >= Len(p) /\ SubSeq(s, 1, Len(p)) = p

EndsWith(s, p) == Len(s) >= Len(p) /\ SubSeq(s, Len(s) - Len(p) + 1, Len(s)) = p

Includes(s, p) ==
  \E i \in 1..(Len(s) - Len(p) + 1) : SubSeq(s, i, i + Len(p) - 1) = p

\* s.substring(0, n)
Substring0(s, n) == IF Len(s) <= n THEN s ELSE SubSeq(s, 1, n)

(***************************************************************************)
(* The wall clock: whole UNIX seconds and milliseconds within the second.  *)
(***************************************************************************)
ClockStart == 1798761599   \* 2026-12-31T23:59:59Z

ClockAt(n) == [s |-> ClockStart + (n \div 2), ms |-> 500 * (n % 2)]

ClockIndex(t) == 2 * (t.s - ClockStart) + (t.ms \div 500)

Pad2(n) == IF n < 10 THEN "0" \o ToString(n) ELSE ToString(n)

Pad4(n) ==
  IF n < 10 THEN "000" \o ToString(n)
  ELSE IF n < 100 THEN "00" \o ToString(n)
  ELSE IF n < 1000 THEN "0" \o ToString(n)
  ELSE ToString(n)

\* DateTime.toUTC().toFormat("yyyyMMddHHmmss"): civil date of the UNIX second
FormatUTC(t) ==
  LET days == t.s \div 86400
      sod  == t.s % 86400
      z    == days + 719468
      era  == z \div 146097
      doe  == z - era * 146097
      yoe  == (doe - (doe \div 1460) + (doe \div 36524) - (doe \div 146096)) \div 365
      doy  == doe - (365 * yoe + (yoe \div 4) - (yoe \div 100))
      mp   == (5 * doy + 2) \div 153
      d    == doy - ((153 * mp + 2) \div 5) + 1
      m    == IF mp < 10 THEN mp + 3 ELSE mp - 9
      y    == yoe + era * 400 + (IF m <= 2 THEN 1 ELSE 0)
  IN  Pad4(y) \o Pad2(m) \o Pad2(d)
        \o Pad2(sod \div 3600) \o Pad2((sod % 3600) \div 60) \o Pad2(sod % 60)

(***************************************************************************)
(* Cryptographic primitives, idealised: HMAC is an injective function of   *)
(* (key, data).                                                            *)
(***************************************************************************)
\* createHmac("sha512", key).update(data).digest("base64")
HmacSha512Base64(key, data) == "hmac512{" \o key \o "}{" \o data \o "}"

create_hash(api_key, values) == HmacSha512Base64(api_key, Join(values))

(***************************************************************************)
(* Outcome of the last operation: what it signed, what it put in the       *)
(* outgoing form or request, what it returned or threw, and how often it   *)
(* called the crypto primitives.                                           *)
(***************************************************************************)
NoReq ==
  [req_time |-> "", merchant_id |-> "", tran_id |-> "", amount |-> "",
   firstname |-> "", lastname |-> "", email |-> "", phone |-> "",
   payment_option |-> "", return_params |-> ""]

\* an ABAPayWayConfig and a PaymentRequest with nothing in them
NoConfig ==
  [present |-> TRUE, baseUrl |-> Undefined, merchantId |-> Undefined, apiKey |-> Undefined,
   rsaPublicKey |-> Undefined, sandbox |-> Undefined, checkoutUrl |-> Undefined]

NoCustomer ==
  [present |-> FALSE, firstName |-> Undefined, lastName |-> Undefined,
   email |-> Undefined, phone |-> Undefined]

NoPayment ==
  [present |-> TRUE, transactionId |-> Undefined, amount |-> Undefined, customer |-> NoCustomer,
   returnParams |-> Undefined]

\* the argument itself is undefined (or null)
UndefinedConfig == [NoConfig EXCEPT !.present = FALSE]

UndefinedPayment == [NoPayment EXCEPT !.present = FALSE]

NoOut ==
  [op |-> "none", status |-> "none", error |-> "", ret |-> "none",
   success |-> FALSE, transactionId |-> Undefined,
   cfg |-> NoConfig, pay |-> NoPayment,
   key |-> "", req |-> NoReq, signed |-> <<>>, hash |-> "",
   form |-> <<>>, action |-> "", url |-> "", sent |-> FALSE,
   json |-> "", encInput |-> Undefined, encCalls |-> 0, hmacCalls |-> 0,
   expired_date |-> 0, useSandbox |-> "none"]

NoCall == [key |-> "", raw |-> <<>>, hash |-> ""]

\* value of the form field called name ("<none>" when the form has no such field)
FormValue(form, name) ==
  IF \E i \in 1..Len(form) : form[i][1] = name
  THEN form[CHOOSE i \in 1..Len(form) : form[i][1] = name][2]
  ELSE "<none>"

(***************************************************************************)
(* index.ts : the shared client                                            *)
(***************************************************************************)
DefaultBaseUrl == "https://checkout-sandbox.payway.com.kh"

Constructor_noStrip(merchant_id, api_key, rsa_public_key, base_url_arg) ==
  LET b0 == IF base_url_arg = Undefined THEN DefaultBaseUrl ELSE base_url_arg
  IN  [version |-> "index", base_url |-> b0, merchant_id |-> merchant_id,
       api_key |-> api_key, rsa_public_key |-> rsa_public_key]

\* new ABAPayWayClient(merchant_id, api_key, rsa_public_key, base_url?)
Constructor(merchant_id, api_key, rsa_public_key, base_url_arg) ==
  LET b0 == IF base_url_arg = Undefined THEN DefaultBaseUrl ELSE base_url_arg
      b1 == IF EndsWith(b0, "/") THEN SubSeq(b0, 1, Len(b0) - 1) ELSE b0
  IN  [version |-> "index", base_url |-> b1, merchant_id |-> merchant_id,
       api_key |-> api_key, rsa_public_key |-> rsa_public_key]

\* purchaseData.payer?.f
PayerField(pd, f) == IF pd.payer.present THEN pd.payer[f] ELSE Undefined

\* the purchase request as the caller gave it, field by field
TransactionReq(c, pd, now) ==
  [req_time |-> now, merchant_id |-> c.merchant_id,
   tran_id |-> pd.tran_id, amount |-> pd.amount,
   firstname |-> PayerField(pd, "firstname"),
   lastname |-> PayerField(pd, "lastname"),
   email |-> PayerField(pd, "email"), phone |-> PayerField(pd, "phone"),
   payment_option |-> pd.payment_option, return_params |-> pd.return_params]

signatureValues_swapped(c, pd, now) ==
  << now, c.merchant_id, pd.tran_id, pd.amount,
     OrEmpty(PayerField(pd, "firstname")), OrEmpty(PayerField(pd, "lastname")),
     OrEmpty(PayerField(pd, "phone")), OrEmpty(PayerField(pd, "email")),
     OrEmpty(pd.payment_option), OrEmpty(pd.return_params) >>

signatureValues(c, pd, now) ==
  << now, c.merchant_id, pd.tran_id, pd.amount,
     OrEmpty(PayerField(pd, "firstname")), OrEmpty(PayerField(pd, "lastname")),
     OrEmpty(PayerField(pd, "email")), OrEmpty(PayerField(pd, "phone")),
     OrEmpty(pd.payment_option), OrEmpty(pd.return_params) >>

PurchaseEndpoint == "/api/payment-gateway/v1/payments/purchase"

TransactionForm_noOption(c, pd, now, hash) ==
  << <<"hash", TemplateStr(hash)>>,
     <<"tran_id", TemplateStr(pd.tran_id)>>,
     <<"amount", TemplateStr(pd.amount)>>,
     <<"firstname", TemplateStr(PayerField(pd, "firstname"))>>,
     <<"lastname", TemplateStr(PayerField(pd, "lastname"))>>,
     <<"phone", TemplateStr(PayerField(pd, "phone"))>>,
     <<"email", TemplateStr(PayerField(pd, "email"))>>,
     <<"return_params", TemplateStr(pd.return_params)>>,
     <<"merchant_id", TemplateStr(c.merchant_id)>>,
     <<"req_time", TemplateStr(now)>> >>

\* the hidden inputs of the returned form, in document order
TransactionForm(c, pd, now, hash) ==
  << <<"hash", TemplateStr(hash)>>,
     <<"tran_id", TemplateStr(pd.tran_id)>>,
     <<"amount", TemplateStr(pd.amount)>>,
     <<"firstname", TemplateStr(PayerField(pd, "firstname"))>>,
     <<"lastname", TemplateStr(PayerField(pd, "lastname"))>>,
     <<"phone", TemplateStr(PayerField(pd, "phone"))>>,
     <<"email", TemplateStr(PayerField(pd, "email"))>>,
     <<"return_params", TemplateStr(pd.return_params)>>,
     <<"merchant_id", TemplateStr(c.merchant_id)>>,
     <<"req_time", TemplateStr(now)>>,
     <<"payment_option", TemplateStr(pd.payment_option)>> >>

createTransactionResult(c, pd, now) ==
  LET sv   == signatureValues(c, pd, now)
      hash == create_hash(c.api_key, sv)
  IN  [NoOut EXCEPT !.op = "createTransaction", !.status = "returned",
         !.ret = "html", !.key = c.api_key,
         !.req = TransactionReq(c, pd, now), !.signed = sv, !.hash = hash,
         !.form = TransactionForm(c, pd, now, hash),
         !.action = c.base_url \o PurchaseEndpoint,
         !.url = c.base_url \o PurchaseEndpoint,
         !.hmacCalls = 1]

(***************************************************************************)
(* part_001 : createCheckoutHash, createCheckoutPayment (checkout-v1)      *)
(***************************************************************************)
\* new ABAPayWayClient(base_url, merchant_id, api_key, rsa_public_key)
Constructor_p001(base_url, merchant_id, api_key, rsa_public_key) ==
  [version |-> "p001", base_url |-> base_url, merchant_id |-> merchant_id,
   api_key |-> api_key, rsa_public_key |-> rsa_public_key]

SANDBOX_CHECKOUT_URL ==
  "https://checkout-sandbox.payway.com.kh/api/payment-gateway/v1/payments/purchase"

PRODUCTION_CHECKOUT_URL ==
  "https://checkout.payway.com.kh/api/payment-gateway/v1/payments/purchase"

\* a parameter declared `useSandbox: boolean = true`
DefaultTrue(arg) == IF arg = Undefined THEN TRUE ELSE arg = "true"

RECURSIVE JoinWith(_, _)
JoinWith(values, sep) ==
  IF values = <<>> THEN ""
  ELSE IF Len(values) = 1 THEN JoinElem(Head(values))
  ELSE JoinElem(Head(values)) \o sep \o JoinWith(Tail(values), sep)

createCheckoutHash_clock(api_key, values) ==
  HmacSha512Base64(api_key, Join(values) \o ToString(ClockIndex(clock)))

createCheckoutHash_delim(api_key, values) ==
  HmacSha512Base64(api_key, JoinWith(values, ","))

createCheckoutHash(api_key, values) == HmacSha512Base64(api_key, Join(values))

CheckoutReq(merchant_id, pd, now) ==
  [req_time |-> now, merchant_id |-> merchant_id,
   tran_id |-> pd.tranId, amount |-> pd.amount,
   firstname |-> pd.customerInfo.firstname,
   lastname |-> pd.customerInfo.lastname,
   email |-> pd.customerInfo.email, phone |-> pd.customerInfo.phone,
   payment_option |-> Undefined, return_params |-> pd.returnParams]

CheckoutSignatureValues_swapped(merchant_id, pd, now) ==
  << now, merchant_id, pd.tranId, pd.amount,
     pd.customerInfo.firstname, pd.customerInfo.lastname,
     pd.customerInfo.email, OrEmpty(pd.returnParams),
     pd.customerInfo.phone >>

CheckoutSignatureValues(merchant_id, pd, now) ==
  << now, merchant_id, pd.tranId, pd.amount,
     pd.customerInfo.firstname, pd.customerInfo.lastname,
     pd.customerInfo.email, pd.customerInfo.phone,
     OrEmpty(pd.returnParams) >>

CheckoutFormData(merchant_id, pd, now, hash) ==
  << <<"hash", hash>>,
     <<"tran_id", pd.tranId>>,
     <<"amount", pd.amount>>,
     <<"firstname", pd.customerInfo.firstname>>,
     <<"lastname", pd.customerInfo.lastname>>,
     <<"phone", pd.customerInfo.phone>>,
     <<"email", pd.customerInfo.email>>,
     <<"return_params", OrEmpty(pd.returnParams)>>,
     <<"merchant_id", merchant_id>>,
     <<"req_time", now>> >>

createCheckoutPayment_p001_cached(c, pd, useSandboxArg, now) ==
  LET t    == IF out.op = "none" THEN now ELSE out.req.req_time
      sv   == CheckoutSignatureValues(c.merchant_id, pd, t)
      hash == createCheckoutHash(c.api_key, sv)
  IN  [NoOut EXCEPT !.op = "createCheckoutPayment", !.status = "returned",
         !.ret = "formData+apiUrl", !.key = c.api_key,
         !.req = CheckoutReq(c.merchant_id, pd, t),
         !.signed = sv, !.hash = hash,
         !.form = CheckoutFormData(c.merchant_id, pd, t, hash),
         !.url = IF DefaultTrue(useSandboxArg) THEN SANDBOX_CHECKOUT_URL
                 ELSE PRODUCTION_CHECKOUT_URL,
         !.hmacCalls = 1]

createCheckoutPayment_p001(c, pd, useSandboxArg, now) ==
  LET sv   == CheckoutSignatureValues(c.merchant_id, pd, now)
      hash == createCheckoutHash(c.api_key, sv)
  IN  [NoOut EXCEPT !.op = "createCheckoutPayment", !.status = "returned",
         !.ret = "formData+apiUrl", !.key = c.api_key,
         !.req = CheckoutReq(c.merchant_id, pd, now),
         !.signed = sv, !.hash = hash,
         !.form = CheckoutFormData(c.merchant_id, pd, now, hash),
         !.url = IF DefaultTrue(useSandboxArg) THEN SANDBOX_CHECKOUT_URL
                 ELSE PRODUCTION_CHECKOUT_URL,
         !.hmacCalls = 1]

createCheckoutHashResult(c, values) ==
  [NoOut EXCEPT !.op = "createCheckoutHash", !.status = "returned",
     !.ret = "hash", !.key = c.api_key, !.signed = values,
     !.hash = createCheckoutHash(c.api_key, values), !.hmacCalls = 1]

(***************************************************************************)
(* part_002 : the configuration based client and its URL resolver          *)
(***************************************************************************)
\* new ABAPayWayClient(config)
Constructor_p002(config) ==
  [version |-> "p002", base_url |-> config.baseUrl,
   merchant_id |-> config.merchantId, api_key |-> config.apiKey,
   rsa_public_key |-> config.rsaPublicKey,
   sandbox |-> (config.sandbox # "false")]

\* baseUrl.replace(/\/$/, '')
StripTrailingSlash(url) ==
  IF EndsWith(url, "/") THEN SubSeq(url, 1, Len(url) - 1) ELSE url

ApiPathSegment == "/api/payment-gateway/"

BaseUrlCheckoutUrl_noStrip(c, useSandbox) ==
  LET clean == c.base_url
  IN  IF ~Falsy(c.base_url)
         /\ (StartsWith(c.base_url, "http://") \/ StartsWith(c.base_url, "https://"))
      THEN IF Includes(clean, ApiPathSegment) THEN clean
           ELSE clean \o PurchaseEndpoint
      ELSE IF ~Falsy(c.base_url) /\ ~StartsWith(c.base_url, "http")
      THEN IF Includes(clean, ApiPathSegment) THEN "https://" \o clean
           ELSE "https://" \o clean \o PurchaseEndpoint
      ELSE IF useSandbox THEN SANDBOX_CHECKOUT_URL
           ELSE PRODUCTION_CHECKOUT_URL

BaseUrlCheckoutUrl_http(c, useSandbox) ==
  LET clean == StripTrailingSlash(c.base_url)
  IN  IF ~Falsy(c.base_url)
         /\ (StartsWith(c.base_url, "http://") \/ StartsWith(c.base_url, "https://"))
      THEN IF Includes(clean, ApiPathSegment) THEN clean
           ELSE clean \o PurchaseEndpoint
      ELSE IF ~Falsy(c.base_url) /\ ~StartsWith(c.base_url, "http")
      THEN IF Includes(clean, ApiPathSegment) THEN "http://" \o clean
           ELSE "http://" \o clean \o PurchaseEndpoint
      ELSE IF useSandbox THEN SANDBOX_CHECKOUT_URL
           ELSE PRODUCTION_CHECKOUT_URL

BaseUrlCheckoutUrl_flagged(c, useSandbox) ==
  LET clean == StripTrailingSlash(c.base_url)
  IN  IF ~Falsy(c.base_url)
         /\ (StartsWith(c.base_url, "http://") \/ StartsWith(c.base_url, "https://"))
      THEN IF Includes(clean, ApiPathSegment) THEN clean
           ELSE IF useSandbox THEN clean \o PurchaseEndpoint
           ELSE PRODUCTION_CHECKOUT_URL
      ELSE IF ~Falsy(c.base_url) /\ ~StartsWith(c.base_url, "http")
      THEN IF Includes(clean, ApiPathSegment) THEN "https://" \o clean
           ELSE "https://" \o clean \o PurchaseEndpoint
      ELSE IF useSandbox THEN SANDBOX_CHECKOUT_URL
           ELSE PRODUCTION_CHECKOUT_URL

\* the part of getCheckoutApiUrl below the environment check
BaseUrlCheckoutUrl(c, useSandbox) ==
  LET clean == StripTrailingSlash(c.base_url)
  IN  IF ~Falsy(c.base_url)
         /\ (StartsWith(c.base_url, "http://") \/ StartsWith(c.base_url, "https://"))
      THEN IF Includes(clean, ApiPathSegment) THEN clean
           ELSE clean \o PurchaseEndpoint
      ELSE IF ~Falsy(c.base_url) /\ ~StartsWith(c.base_url, "http")
      THEN IF Includes(clean, ApiPathSegment) THEN "https://" \o clean
           ELSE "https://" \o clean \o PurchaseEndpoint
      ELSE IF useSandbox THEN SANDBOX_CHECKOUT_URL
           ELSE PRODUCTION_CHECKOUT_URL

getCheckoutApiUrl_anyOverride(c, e, useSandbox) ==
  LET envUrl == IF ~Falsy(e.sandbox) THEN e.sandbox ELSE e.production
  IN  IF ~Falsy(envUrl) THEN envUrl ELSE BaseUrlCheckoutUrl(c, useSandbox)

\* e holds process.env.ABA_SANDBOX_CHECKOUT_URL / ABA_PRODUCTION_CHECKOUT_URL
getCheckoutApiUrl(c, e, useSandbox) ==
  LET envUrl == IF useSandbox THEN e.sandbox ELSE e.production
  IN  IF ~Falsy(envUrl) THEN envUrl ELSE BaseUrlCheckoutUrl(c, useSandbox)

\* createCheckout: createCheckoutPayment, then generateCheckoutForm
createCheckoutResult(c, e, pd, useSandboxArg, now) ==
  LET sv     == CheckoutSignatureValues(c.merchant_id, pd, now)
      hash   == createCheckoutHash(c.api_key, sv)
      apiUrl == getCheckoutApiUrl(c, e, DefaultTrue(useSandboxArg))
  IN  [NoOut EXCEPT !.op = "createCheckout", !.status = "returned",
         !.ret = "htmlForm+checkoutUrl", !.key = c.api_key,
         !.req = CheckoutReq(c.merchant_id, pd, now),
         !.signed = sv, !.hash = hash,
         !.form = CheckoutFormData(c.merchant_id, pd, now, hash),
         !.action = apiUrl, !.url = apiUrl, !.hmacCalls = 1,
         !.useSandbox = IF DefaultTrue(useSandboxArg) THEN "true" ELSE "false"]

(***************************************************************************)
(* Inputs                                                                  *)
(***************************************************************************)
MerchantId == "ec461403"
ApiKey == "7561d98442"
RsaKey1024 == "PEM1024"

NoPayer ==
  [present |-> FALSE, firstname |-> Undefined, lastname |-> Undefined,
   phone |-> Undefined, email |-> Undefined]

Payers ==
  {NoPayer} \cup
  [present : {TRUE}, firstname : {Undefined, "", "John"},
   lastname : {Undefined, "Doe"}, phone : {"0123456789"},
   email : {Undefined, "x@y.com"}]

PurchaseInputs ==
  [tran_id : {"tran1234"}, amount : {"20"}, payer : Payers,
   return_params : {Undefined, "", "p=1"},
   payment_option : {Undefined, "cards"}]

CheckoutInputs ==
  [tranId : {"tran1234"}, amount : {"20", "10.50"},
   customerInfo : [firstname : {"John", "Jo"}, lastname : {"Doe", "hnDoe"},
                   phone : {"0123456789"}, email : {"x@y.com"}],
   returnParams : {Undefined, "", "p=1"}]

UseSandboxArgs == {Undefined, "true", "false"}

IndexClients ==
  { Constructor(MerchantId, ApiKey, k, b) :
      k \in {Undefined, RsaKey1024},
      b \in {Undefined, "https://checkout.payway.com.kh/"} }

P001Clients ==
  { Constructor_p001("https://checkout-sandbox.payway.com.kh", MerchantId,
                     ApiKey, RsaKey1024) }

NoEnv == [sandbox |-> Undefined, production |-> Undefined]

P002Config(baseUrl, rsaPublicKey, sandbox) ==
  [baseUrl |-> baseUrl, merchantId |-> MerchantId, apiKey |-> ApiKey,
   rsaPublicKey |-> rsaPublicKey, sandbox |-> sandbox]

P002DefaultClients ==
  { Constructor_p002(P002Config(DefaultBaseUrl, Undefined, Undefined)) }

ResolverInputs ==
  [tranId : {"tran1234"}, amount : {"20"},
   customerInfo : [firstname : {"John"}, lastname : {"Doe"},
                   phone : {"0123456789"}, email : {"x@y.com"}],
   returnParams : {Undefined, "p=1"}]

(***************************************************************************)
(* Actions                                                                 *)
(***************************************************************************)
Tick ==
  /\ ClockIndex(clock) < MaxTicks
  /\ clock' = ClockAt(ClockIndex(clock) + 1)
  /\ UNCHANGED <<client, env, out, pending, console, remembered>>

createTransaction(pd) ==
  /\ client.version = "index"
  /\ \E now \in {FormatUTC(clock)} :
       out' = createTransactionResult(client, pd, now)
  /\ UNCHANGED <<client, env, clock, pending, console, remembered>>

createCheckoutPayment(pd, useSandboxArg) ==
  /\ client.version = "p001"
  /\ \E now \in {FormatUTC(clock)} :
       out' = createCheckoutPayment_p001(client, pd, useSandboxArg, now)
  /\ UNCHANGED <<client, env, clock, pending, console, remembered>>

CallCreateCheckoutHash(values) ==
  /\ client.version = "p001"
  /\ out' = createCheckoutHashResult(client, values)
  /\ UNCHANGED <<client, env, clock, pending, console, remembered>>

createCheckout(pd, useSandboxArg) ==
  /\ client.version = "p002"
  /\ \E now \in {FormatUTC(clock)} :
       out' = createCheckoutResult(client, env, pd, useSandboxArg, now)
  /\ UNCHANGED <<client, env, clock, pending, console, remembered>>

(***************************************************************************)
(* Purchase signing (Mode A)                                               *)
(***************************************************************************)
Init ==
  /\ client \in IndexClients \cup P001Clients \cup P002DefaultClients
  /\ env = NoEnv
  /\ clock = ClockAt(0)
  /\ out = NoOut
  /\ pending = 0
  /\ console = "none"
  /\ remembered = NoCall

Next ==
  \/ Tick
  \/ \E pd \in PurchaseInputs : createTransaction(pd)
  \/ \E pd \in CheckoutInputs, a \in UseSandboxArgs : createCheckoutPayment(pd, a)
  \/ \E pd \in ResolverInputs, a \in UseSandboxArgs : createCheckout(pd, a)

Spec == Init /\ [][Next]_vars

PurchaseOps == {"createTransaction", "createCheckoutPayment", "createCheckout"}

\* the signature input the gateway contract prescribes for a request
CanonicalData(r, withOption) ==
  r.req_time \o r.merchant_id \o r.tran_id \o r.amount
    \o JoinElem(r.firstname) \o JoinElem(r.lastname)
    \o JoinElem(r.email) \o JoinElem(r.phone)
    \o (IF withOption THEN JoinElem(r.payment_option) ELSE "")
    \o JoinElem(r.return_params)

\* C1: every value placed in the outgoing purchase form is the same string
\* as the value at the corresponding position of the signature input
\* (absent and empty are not treated one way for signing and another way
\* for sending).
C1_FormEqualsSigned ==
  out.op \in PurchaseOps =>
    LET v2 == out.op = "createTransaction"
        sv == out.signed
    IN  /\ FormValue(out.form, "req_time") = sv[1]
        /\ FormValue(out.form, "merchant_id") = sv[2]
        /\ FormValue(out.form, "tran_id") = sv[3]
        /\ FormValue(out.form, "amount") = sv[4]
        /\ FormValue(out.form, "firstname") = sv[5]
        /\ FormValue(out.form, "lastname") = sv[6]
        /\ FormValue(out.form, "email") = sv[7]
        /\ FormValue(out.form, "phone") = sv[8]
        /\ v2 => FormValue(out.form, "payment_option") = sv[9]
        /\ FormValue(out.form, "return_params") = sv[IF v2 THEN 10 ELSE 9]

\* C2: the signature input of a purchase is the concatenation of request
\* timestamp, merchant id, transaction id, amount, first name, last name,
\* email, phone, payment option (checkout-v2 only), return params, in that
\* order, for every purchase operation.
C2_CanonicalOrder ==
  out.op \in PurchaseOps =>
    /\ Len(out.signed) = (IF out.op = "createTransaction" THEN 10 ELSE 9)
    /\ out.hash =
         HmacSha512Base64(out.key,
                          CanonicalData(out.req, out.op = "createTransaction"))

C2_Witness ==
  /\ out.op = "createCheckoutPayment"
  /\ out.req.firstname = "Jo" /\ out.req.lastname = "hnDoe"
  /\ out.req.return_params = "p=1"

Digits(str) ==
  \A i \in 1..Len(str) :
    SubSeq(str, i, i) \in {"0", "1", "2", "3", "4", "5", "6", "7", "8", "9"}

GatewayFields ==
  {"hash", "tran_id", "amount", "firstname", "lastname", "phone", "email",
   "return_params", "merchant_id", "req_time"}

\* C23: the form of a purchase holds exactly the fields hash, tran_id,
\* amount, firstname, lastname, phone, email, return_params, merchant_id and
\* req_time, and payment_option as well for createTransaction, each once;
\* merchant_id is the configured merchant id and hash is the non-empty
\* signature.
C23_ExactFields ==
  out.op \in PurchaseOps =>
    LET expected == GatewayFields \cup
                      (IF out.op = "createTransaction" THEN {"payment_option"}
                       ELSE {})
    IN  /\ {out.form[i][1] : i \in 1..Len(out.form)} = expected
        /\ Len(out.form) = Cardinality(expected)
        /\ FormValue(out.form, "merchant_id") = client.merchant_id
        /\ FormValue(out.form, "hash") = out.hash
        /\ out.hash # ""

C23_Witness ==
  /\ out.op = "createTransaction"
  /\ Len(out.form) = 11
  /\ FormValue(out.form, "payment_option") = "cards"
  /\ FormValue(out.form, "merchant_id") = MerchantId

(***************************************************************************)
(* Signing as a function of (key, ordered values): an earlier signing call *)
(* is remembered and compared with the latest one.                         *)
(***************************************************************************)
\* the field values of the latest signing call as the caller gave them
RawOf(o) ==
  IF o.op = "createTransaction"
  THEN << o.req.req_time, o.req.merchant_id, o.req.tran_id, o.req.amount,
          o.req.firstname, o.req.lastname, o.req.email, o.req.phone,
          o.req.payment_option, o.req.return_params >>
  ELSE o.signed

Remember ==
  /\ out.hash # ""
  /\ remembered' = [key |-> out.key, raw |-> RawOf(out), hash |-> out.hash]
  /\ UNCHANGED <<client, env, clock, out, pending, console>>

SignPurchaseInputs ==
  [tran_id : {"tran1234"}, amount : {"20"},
   payer : {NoPayer} \cup
           [present : {TRUE}, firstname : {Undefined, "", "John"},
            lastname : {"Doe"}, phone : {"0123456789"}, email : {"x@y.com"}],
   return_params : {Undefined}, payment_option : {Undefined}]

HashValueLists ==
  { <<x, y>> : x \in {"", "a", "ab", "bc", "c"}, y \in {"", "a", "ab", "bc", "c"} }

InitSign ==
  /\ client \in {Constructor(MerchantId, ApiKey, RsaKey1024, Undefined)}
                  \cup P001Clients
  /\ env = NoEnv
  /\ clock = ClockAt(0)
  /\ out = NoOut
  /\ pending = 0
  /\ console = "none"
  /\ remembered = NoCall

NextSign ==
  \/ Tick
  \/ Remember
  \/ \E pd \in SignPurchaseInputs : createTransaction(pd)
  \/ \E values \in HashValueLists : CallCreateCheckoutHash(values)

SpecSign == InitSign /\ [][NextSign]_vars

BothSigned == remembered.hash # "" /\ out.hash # ""

\* number of positions at which two equally long value sequences differ
DiffCount(a, b) == Cardinality({i \in 1..Len(a) : a[i] # b[i]})

\* C3: two signing calls with the same key and the same ordered values
\* return the same signature, whatever was called in between and whatever
\* the clock reads.
C3_Deterministic ==
  (BothSigned /\ remembered.key = out.key /\ remembered.raw = RawOf(out))
    => remembered.hash = out.hash

C3_Witness ==
  /\ BothSigned
  /\ out.op = "createCheckoutHash"
  /\ remembered.raw = <<"ab", "c">> /\ out.signed = <<"ab", "c">>
  /\ ClockIndex(clock) > 0

\* C4 as claimed: for a fixed key, changing a single field value (absent
\* and empty counting as different values) changes the signature, and so
\* does moving the boundary between adjacent fields.
C4_Original ==
  (BothSigned /\ remembered.key = out.key
     /\ Len(remembered.raw) = Len(RawOf(out)))
    => /\ DiffCount(remembered.raw, RawOf(out)) = 1
            => remembered.hash # out.hash
       /\ (remembered.raw # RawOf(out)
             /\ Join(remembered.raw) = Join(RawOf(out)))
            => remembered.hash # out.hash

\* C4 (amended): for a fixed key two signing calls return the same
\* signature exactly when the concatenations of their field values are
\* equal, an absent field counting as the empty string; so changing one
\* field to a different string changes the signature, while sequences that
\* differ only in field boundaries sign identically.
C4_ConcatDecides ==
  (BothSigned /\ remembered.key = out.key)
    => /\ (remembered.hash = out.hash)
            <=> (Join(remembered.raw) = Join(RawOf(out)))
       /\ \A i \in 1..Len(remembered.raw) :
            ( /\ Len(remembered.raw) = Len(RawOf(out))
              /\ \A j \in 1..Len(remembered.raw) :
                   (j # i) => remembered.raw[j] = RawOf(out)[j]
              /\ JoinElem(remembered.raw[i]) # JoinElem(RawOf(out)[i]) )
            => remembered.hash # out.hash

C4_Witness ==
  /\ BothSigned
  /\ remembered.raw = <<"ab", "c">> /\ out.signed = <<"a", "bc">>
  /\ remembered.hash = out.hash

(***************************************************************************)
(* Payment links (Mode B)                                                  *)
(***************************************************************************)
TruncateLimit == 117

\* the characters of the inputs whose UTF-8 encoding has three bytes (one
\* UTF-16 code unit each); every other character of the model is ASCII
ThreeByteChars == {"ក"}

\* bytes of the UTF-8 encoding of s
Utf8Len(s) ==
  Len(s) + 2 * Cardinality({i \in 1..Len(s) : SubSeq(s, i, i) \in ThreeByteChars})

\* plaintext capacity of a key under RSA_PKCS1_PADDING: modulus bytes - 11
RsaCapacity(key) == (IF key = RsaKey1024 THEN 128 ELSE 256) - 11

\* crypto.publicEncrypt({key, padding: RSA_PKCS1_PADDING}, data); r is the
\* random padding string PKCS#1 v1.5 draws
publicEncrypt(key, data, r) ==
  IF key = Undefined
  THEN [ok |-> FALSE, error |-> "ERR_INVALID_ARG_TYPE", bytes |-> ""]
  ELSE IF Utf8Len(data) > RsaCapacity(key)
  THEN [ok |-> FALSE, error |-> "data too large for key size", bytes |-> ""]
  ELSE [ok |-> TRUE, error |-> "",
        bytes |-> "rsa{" \o key \o "}{" \o r \o "}{" \o data \o "}"]

\* Buffer.toString("base64")
ToBase64(bytes) == "b64(" \o bytes \o ")"

\* Buffer.toString(): the bytes decoded as UTF-8
ToUtf8String(bytes) == "utf8(" \o bytes \o ")"

\* JSON.stringify of a string without characters that need escaping
JsonString(str) == "\"" \o str \o "\""

\* Math.round(t.plus({seconds: 120}).toUTC().toSeconds())
ExpiredDate(t) == t.s + 120 + (IF t.ms >= 500 THEN 1 ELSE 0)

\* JSON.stringify(merchant_authObj); expired is the rendered expired_date
MerchantAuthJson(merchant_id, args, expired) ==
  "{\"mc_id\":" \o JsonString(merchant_id)
    \o ",\"title\":" \o JsonString(args.title)
    \o ",\"amount\":" \o ToString(args.amount)
    \o ",\"currency\":" \o JsonString(args.currency)
    \o ",\"expired_date\":" \o expired
    \o ",\"return_url\":" \o JsonString(args.return_url) \o "}"

PaymentLinkUrl ==
  "https://checkout-sandbox.payway.com.kh/api/merchant-portal/merchant-access/payment-link/create"

LinkHashValues_swapped(payload) ==
  << payload.merchant_id, payload.request_time, payload.merchant_auth >>

\* the values handed to create_hash
LinkHashValues(payload) ==
  << payload.request_time, payload.merchant_id, payload.merchant_auth >>

\* formdata.append(...) x 4
LinkFormData(payload, hash) ==
  << <<"request_time", payload.request_time>>,
     <<"merchant_id", payload.merchant_id>>,
     <<"merchant_auth", payload.merchant_auth>>,
     <<"hash", hash>> >>

LinkThrew(c, json, enc, error, expired) ==
  [NoOut EXCEPT !.op = "createPaymentLink", !.status = "threw",
     !.error = error, !.key = c.api_key, !.json = json,
     !.encInput = enc.input, !.encCalls = enc.calls,
     !.expired_date = expired]

LinkSent_baseUrl(c, json, plaintext, payload, expired) ==
  LET sv   == LinkHashValues(payload)
      hash == create_hash(c.api_key, sv)
  IN  [NoOut EXCEPT !.op = "createPaymentLink", !.status = "returned",
         !.ret = "undefined", !.key = c.api_key, !.signed = sv,
         !.hash = hash, !.form = LinkFormData(payload, hash),
         !.url = c.base_url
                   \o "/api/merchant-portal/merchant-access/payment-link/create",
         !.sent = TRUE, !.json = json,
         !.encInput = plaintext, !.encCalls = 1, !.hmacCalls = 1,
         !.expired_date = expired]

LinkSent(c, json, plaintext, payload, expired) ==
  LET sv   == LinkHashValues(payload)
      hash == create_hash(c.api_key, sv)
  IN  [NoOut EXCEPT !.op = "createPaymentLink", !.status = "returned",
         !.ret = "undefined", !.key = c.api_key, !.signed = sv,
         !.hash = hash, !.form = LinkFormData(payload, hash),
         !.url = PaymentLinkUrl, !.sent = TRUE, !.json = json,
         !.encInput = plaintext, !.encCalls = 1, !.hmacCalls = 1,
         !.expired_date = expired]

\* index.ts (and part_001): t1 is the clock at the first DateTime.now(),
\* t2 at the second
createPaymentLinkResult(c, args, t1, t2, r) ==
  LET expired   == ExpiredDate(t1)
      json      == MerchantAuthJson(c.merchant_id, args, ToString(expired))
      plaintext == Substring0(json, TruncateLimit)
      enc       == publicEncrypt(c.rsa_public_key, plaintext, r)
      payload   == [request_time |-> FormatUTC(t2),
                    merchant_id |-> c.merchant_id,
                    merchant_auth |-> ToBase64(enc.bytes)]
  IN  IF ~enc.ok
      THEN LinkThrew(c, json, [input |-> plaintext, calls |-> 1],
                     enc.error, expired)
      ELSE LinkSent(c, json, plaintext, payload, expired)

(***************************************************************************)
(* part_000 : the legacy payment link, written to the console only         *)
(***************************************************************************)
Constructor_p000(base_url, merchant_id, api_key, rsa_public_key) ==
  [version |-> "p000", base_url |-> base_url, merchant_id |-> merchant_id,
   api_key |-> api_key, rsa_public_key |-> rsa_public_key]

createPaymentLink_p000Result(c, args, t, r) ==
  LET json      == MerchantAuthJson(c.merchant_id, args, "null")
      plaintext == Substring0(json, TruncateLimit)
      enc       == publicEncrypt(c.rsa_public_key, plaintext, r)
      payload   == [request_time |-> FormatUTC(t),
                    merchant_id |-> c.merchant_id,
                    merchant_auth |-> ToUtf8String(enc.bytes)]
      sv        == << payload.request_time, payload.merchant_id,
                      payload.merchant_auth >>
      hash      == create_hash(c.api_key, sv)
  IN  IF ~enc.ok
      THEN LinkThrew(c, json, [input |-> plaintext, calls |-> 1],
                     enc.error, 0)
      ELSE [NoOut EXCEPT !.op = "createPaymentLink", !.status = "returned",
              !.ret = "undefined", !.key = c.api_key, !.signed = sv,
              !.hash = hash, !.form = LinkFormData(payload, hash),
              !.json = json, !.encInput = plaintext, !.encCalls = 1,
              !.hmacCalls = 1]

(***************************************************************************)
(* part_002 : the configuration based client                               *)
(***************************************************************************)
RsaKeyRequired == "RSA public key is required for payment creation"

createPaymentLink_p002Result(c, args, t1, t2, r) ==
  LET expired   == ExpiredDate(t1)
      json      == MerchantAuthJson(c.merchant_id, args, ToString(expired))
      enc       == publicEncrypt(c.rsa_public_key, json, r)
      payload   == [request_time |-> FormatUTC(t2),
                    merchant_id |-> c.merchant_id,
                    merchant_auth |-> ToBase64(enc.bytes)]
  IN  IF Falsy(c.rsa_public_key)
      THEN LinkThrew(c, json, [input |-> Undefined, calls |-> 0],
                     RsaKeyRequired, expired)
      ELSE IF ~enc.ok
      THEN LinkThrew(c, json, [input |-> json, calls |-> 1],
                     enc.error, expired)
      ELSE LinkSent(c, json, json, payload, expired)

LinkInputs ==
  [title : {"T", "Payment", "Payments", "Paymenក"}, amount : {1000},
   currency : {"KHR", "USD"}, return_url : {"u.kh/r"}]

Paddings == {"r1", "r2"}

LinkClients ==
  { Constructor(MerchantId, ApiKey, k, Undefined) : k \in {Undefined, RsaKey1024} }
  \cup { Constructor_p000(DefaultBaseUrl, MerchantId, ApiKey, RsaKey1024) }
  \cup { Constructor_p002(P002Config(DefaultBaseUrl, k, Undefined)) :
           k \in {Undefined, RsaKey1024} }

Finish_storesUrl(result, t2, log) ==
  /\ out' = result
  /\ clock' = t2
  /\ pending' = IF result.sent THEN pending + 1 ELSE pending
  /\ console' = IF result.status = "returned" /\ log # "" THEN log ELSE console
  /\ client' = [client EXCEPT !.base_url = result.url]
  /\ UNCHANGED <<env, remembered>>

\* the settled outcome of the operation, the clock having moved to t2
Finish(result, t2, log) ==
  /\ out' = result
  /\ clock' = t2
  /\ pending' = IF result.sent THEN pending + 1 ELSE pending
  /\ console' = IF result.status = "returned" /\ log # "" THEN log ELSE console
  /\ UNCHANGED <<client, env, remembered>>

createPaymentLink(args) ==
  /\ client.version = "index"
  /\ pending < MaxPending
  /\ \E adv \in 0..1, r \in Paddings :
       /\ ClockIndex(clock) + adv <= MaxTicks
       /\ Finish(createPaymentLinkResult(client, args, clock,
                     ClockAt(ClockIndex(clock) + adv), r),
                 ClockAt(ClockIndex(clock) + adv), "")

createPaymentLink_p000(args) ==
  /\ client.version = "p000"
  /\ \E r \in Paddings :
       Finish(createPaymentLink_p000Result(client, args, clock, r),
              clock, "payload")

createPaymentLink_p002(args) ==
  /\ client.version = "p002"
  /\ pending < MaxPending
  /\ \E adv \in 0..1, r \in Paddings :
       /\ ClockIndex(clock) + adv <= MaxTicks
       /\ Finish(createPaymentLink_p002Result(client, args, clock,
                     ClockAt(ClockIndex(clock) + adv), r),
                 ClockAt(ClockIndex(clock) + adv), "")

\* the promise chain of fetch: the response text, or the error, is logged
FetchSettle ==
  /\ pending > 0
  /\ pending' = pending - 1
  /\ \E log \in {"result", "error"} : console' = log
  /\ UNCHANGED <<client, env, clock, out, remembered>>

InitLink ==
  /\ client \in LinkClients
  /\ env = NoEnv
  /\ clock = ClockAt(0)
  /\ out = NoOut
  /\ pending = 0
  /\ console = "none"
  /\ remembered = NoCall

NextLink ==
  \/ Tick
  \/ FetchSettle
  \/ \E args \in LinkInputs : createPaymentLink(args)
  \/ \E args \in LinkInputs : createPaymentLink_p000(args)
  \/ \E args \in LinkInputs : createPaymentLink_p002(args)

SpecLink == InitLink /\ [][NextLink]_vars

LinkDone == out.op = "createPaymentLink"

\* C5: a payment link asked of a client without RSA public key fails with
\* a configuration error before any encryption, HMAC computation or
\* network request is attempted.
C5_NoKeyConfigError ==
  (LinkDone /\ Falsy(client.rsa_public_key))
    => /\ out.status = "threw"
       /\ out.error = RsaKeyRequired
       /\ out.encCalls = 0 /\ out.hmacCalls = 0 /\ ~out.sent

\* C6: a merchant-auth JSON longer than the 117 byte capacity of a 1024-bit
\* key raises a crypto error and sends nothing; a truncated prefix of the
\* JSON is never encrypted.
C6_OversizeRaises ==
  (LinkDone /\ client.rsa_public_key = RsaKey1024
     /\ Utf8Len(out.json) > TruncateLimit)
    => /\ out.status = "threw"
       /\ out.error = "data too large for key size"
       /\ ~out.sent
       /\ out.hash = ""

\* C7: the outer signature of a payment link is computed over
\* (request_time, merchant_id, merchant_auth) in that order, and the four
\* fields sent are those three values plus that signature.
C7_LinkSignature ==
  (LinkDone /\ out.status = "returned")
    => /\ Len(out.form) = 4
       /\ << out.form[1][1], out.form[2][1], out.form[3][1], out.form[4][1] >>
            = << "request_time", "merchant_id", "merchant_auth", "hash" >>
       /\ out.signed = << out.form[1][2], out.form[2][2], out.form[3][2] >>
       /\ out.form[2][2] = client.merchant_id
       /\ out.form[4][2] = out.hash
       /\ out.hash = HmacSha512Base64(client.api_key,
                       out.form[1][2] \o out.form[2][2] \o out.form[3][2])

C7_Witness ==
  /\ LinkDone /\ out.status = "returned" /\ out.sent
  /\ client.version = "index"
  /\ Len(out.json) <= TruncateLimit

\* C8: createPaymentLink returns to its caller a payload holding request
\* timestamp, merchant id, merchant auth, signature and target URL.
C8_ReturnsPayload ==
  (LinkDone /\ out.status = "returned") => out.ret = "payload"

\* the UNIX second a yyyyMMddHHmmss timestamp of the model's clock encodes
UnixSeconds(timestamp) ==
  CHOOSE sec \in ClockStart..(ClockStart + MaxTicks) :
    FormatUTC([s |-> sec, ms |-> 0]) = timestamp

\* C26: in a payment-link request with an expiry, expired_date is exactly
\* 120 seconds after the second that request_time encodes.
C26_Expiry120 ==
  (LinkDone /\ out.status = "returned" /\ client.version # "p000")
    => out.expired_date - UnixSeconds(out.form[1][2]) = 120

\* C27: where the plaintext is capped with substring(0, 117), what is
\* handed to RSA encryption is at most 117 bytes of UTF-8, so encryption
\* under a 1024-bit key succeeds.
C27_FitsKey ==
  (LinkDone /\ client.version \in {"index", "p000"} /\ out.encCalls = 1)
    => /\ Utf8Len(out.encInput) <= TruncateLimit
       /\ (client.rsa_public_key = RsaKey1024) => out.status = "returned"

\* C20: no failure is swallowed: when the transmission of a payment link
\* has failed, the operation has not returned normally to its caller.
C20_NoSwallow == console = "error" => out.status = "threw"

\* C9: no operation starts a network transmission or leaves an
\* asynchronous task pending after it returns.
C9_NoNetwork == pending = 0 /\ ~out.sent

(***************************************************************************)
(* Checkout URL resolution                                                 *)
(***************************************************************************)
BaseUrls ==
  { "", "https://checkout.payway.com.kh", "https://checkout.payway.com.kh/",
    "http://pay.kh", "pay.kh", "pay.kh/",
    "https://pay.kh/api/payment-gateway/v1/payments/purchase/",
    "pay.kh/api/payment-gateway/v2", "httpbin.kh",
    "https://pay.kh/api/payment-gateway/v1//",
    "https://pay.kh/api/payment-gateway/" }

EnvSettings ==
  [sandbox : {Undefined, "", "https://sb.example/pay"},
   production : {Undefined, "https://prod.example/pay",
                 "http://plain.example/pay"}]

InitCheckout ==
  /\ client \in { Constructor_p002(P002Config(b, Undefined, sb)) :
                    b \in BaseUrls, sb \in {Undefined, "false"} }
  /\ env \in EnvSettings
  /\ clock = ClockAt(0)
  /\ out = NoOut
  /\ pending = 0
  /\ console = "none"
  /\ remembered = NoCall

NextCheckout ==
  \/ Tick
  \/ \E pd \in ResolverInputs, a \in UseSandboxArgs : createCheckout(pd, a)

SpecCheckout == InitCheckout /\ [][NextCheckout]_vars

\* the override of the environment the call selected
SelectedOverride == IF out.useSandbox = "true" THEN env.sandbox ELSE env.production

\* C10: when the override of the selected environment is set the resolved
\* URL is exactly that override, whatever the base URL; the override of
\* the other environment is never used.
C10_OverrideFirst ==
  out.op = "createCheckout" =>
    IF ~Falsy(SelectedOverride)
    THEN out.url = SelectedOverride
    ELSE out.url = getCheckoutApiUrl(client, NoEnv, out.useSandbox = "true")

C10_Witness ==
  /\ out.op = "createCheckout"
  /\ out.useSandbox = "false"
  /\ env.sandbox = "https://sb.example/pay"
  /\ env.production = "https://prod.example/pay"
  /\ client.base_url = "https://checkout.payway.com.kh"
  /\ out.url = "https://prod.example/pay"

NoOverride == out.op = "createCheckout" /\ Falsy(SelectedOverride)

\* url without its last character when that is a slash
WithoutLastSlash(url) ==
  IF Len(url) > 0 /\ SubSeq(url, Len(url), Len(url)) = "/"
  THEN SubSeq(url, 1, Len(url) - 1) ELSE url

HasProtocol(url) == StartsWith(url, "http://") \/ StartsWith(url, "https://")

\* the resolver applied to its own output as the configured base URL
ResolveAgain ==
  getCheckoutApiUrl([client EXCEPT !.base_url = out.url], NoEnv,
                    out.useSandbox = "true")

BareHost(url) ==
  /\ ~Falsy(url)
  /\ ~Includes(url, "://")
  /\ ~Includes(url, ApiPathSegment)

\* C12: with no override, a bare-host base URL resolves to "https://",
\* the host and the standard purchase path.
C12_BareHost ==
  (NoOverride /\ BareHost(client.base_url))
    => out.url = "https://" \o WithoutLastSlash(client.base_url)
                   \o "/api/payment-gateway/v1/payments/purchase"

\* the configured value the resolver takes the URL from
EffectiveSource ==
  IF ~Falsy(SelectedOverride) THEN SelectedOverride ELSE client.base_url

ConfigMissingMsg ==
  "Missing required ABA PayWay configuration: baseUrl, merchantId, and apiKey are required"

PaymentMissingMsg ==
  "Missing required payment data: transactionId, amount, and customer are required"

CustomerMissingMsg ==
  "Missing required customer data: firstName, lastName, email, and phone are required"

ConfigMissing_noApiKey(config) ==
  Falsy(config.baseUrl) \/ Falsy(config.merchantId)

\* !config.baseUrl || !config.merchantId || !config.apiKey
ConfigMissing(config) ==
  Falsy(config.baseUrl) \/ Falsy(config.merchantId) \/ Falsy(config.apiKey)

\* !payment.transactionId || !payment.amount || !payment.customer
PaymentMissing(payment) ==
  Falsy(payment.transactionId) \/ Falsy(payment.amount)
    \/ ~payment.customer.present

CustomerMissing_noEmail(payment) ==
  Falsy(payment.customer.firstName) \/ Falsy(payment.customer.lastName)
    \/ Falsy(payment.customer.phone)

\* !customer.firstName || !customer.lastName || !customer.email || !customer.phone
CustomerMissing(payment) ==
  Falsy(payment.customer.firstName) \/ Falsy(payment.customer.lastName)
    \/ Falsy(payment.customer.email) \/ Falsy(payment.customer.phone)

\* "Transform public API to internal format"
CheckoutDataOf(payment) ==
  [tranId |-> payment.transactionId, amount |-> payment.amount,
   customerInfo |-> [firstname |-> payment.customer.firstName,
                     lastname |-> payment.customer.lastName,
                     email |-> payment.customer.email,
                     phone |-> payment.customer.phone],
   returnParams |-> OrEmpty(payment.returnParams)]

\* the message of the TypeError V8 raises when a property of undefined is read
TypeErrorMsg(property) ==
  "Cannot read properties of undefined (reading '" \o property \o "')"

\* what the try block throws ("" when it runs to its return statement)
ABAThrown(config, payment) ==
  IF ~config.present THEN TypeErrorMsg("baseUrl")
  ELSE IF ConfigMissing(config) THEN ConfigMissingMsg
  ELSE IF ~payment.present THEN TypeErrorMsg("transactionId")
  ELSE IF PaymentMissing(payment) THEN PaymentMissingMsg
  ELSE IF CustomerMissing(payment) THEN CustomerMissingMsg
  ELSE ""

ABAFailure_keepsUrl(config, payment, message) ==
  IF ~payment.present
  THEN [NoOut EXCEPT !.op = "createABACheckout", !.status = "threw",
          !.error = TypeErrorMsg("transactionId"),
          !.cfg = config, !.pay = payment]
  ELSE [NoOut EXCEPT !.op = "createABACheckout", !.status = "returned",
          !.ret = "PaymentResponse", !.success = FALSE, !.error = message,
          !.transactionId = payment.transactionId,
          !.url = OrEmpty(config.baseUrl),
          !.cfg = config, !.pay = payment]

\* the catch block: the thrown message becomes the error of the response;
\* reading payment.transactionId of an undefined payment throws again
ABAFailure(config, payment, message) ==
  IF ~payment.present
  THEN [NoOut EXCEPT !.op = "createABACheckout", !.status = "threw",
          !.error = TypeErrorMsg("transactionId"),
          !.cfg = config, !.pay = payment]
  ELSE [NoOut EXCEPT !.op = "createABACheckout", !.status = "returned",
          !.ret = "PaymentResponse", !.success = FALSE, !.error = message,
          !.transactionId = payment.transactionId,
          !.cfg = config, !.pay = payment]

createABACheckoutResult(config, payment, e, now) ==
  LET useSandbox == IF config.sandbox # "false" THEN "true" ELSE "false"
      checkout   == createCheckoutResult(Constructor_p002(config), e,
                                         CheckoutDataOf(payment), useSandbox, now)
      thrown     == ABAThrown(config, payment)
  IN  IF thrown # ""
      THEN ABAFailure(config, payment, thrown)
      ELSE [checkout EXCEPT !.op = "createABACheckout",
              !.ret = "PaymentResponse", !.success = TRUE,
              !.error = Undefined,
              !.transactionId = payment.transactionId,
              !.cfg = config, !.pay = payment]

ValidConfig ==
  [NoConfig EXCEPT !.baseUrl = DefaultBaseUrl, !.merchantId = MerchantId,
                   !.apiKey = ApiKey]

ABAConfigs ==
  {ValidConfig}
    \cup { [ValidConfig EXCEPT !.sandbox = sb] : sb \in {"true", "false"} }
    \cup { [ValidConfig EXCEPT !.baseUrl = b, !.sandbox = sb] :
             b \in {Undefined, ""}, sb \in {Undefined, "false"} }
    \cup { [ValidConfig EXCEPT !.merchantId = Undefined] }
    \cup { [ValidConfig EXCEPT !.apiKey = k] : k \in {Undefined, ""} }
    \cup { [ValidConfig EXCEPT !.baseUrl = Undefined,
                               !.checkoutUrl = SANDBOX_CHECKOUT_URL] }
    \cup { UndefinedConfig }

ValidPayment ==
  [present |-> TRUE, transactionId |-> "tran1234", amount |-> "10.50",
   customer |-> [present |-> TRUE, firstName |-> "John", lastName |-> "Doe",
                 email |-> "x@y.com", phone |-> "0123456789"],
   returnParams |-> Undefined]

ABAPayments ==
  {ValidPayment}
    \cup { [ValidPayment EXCEPT !.amount = a] : a \in {"0.00", "-5", Undefined, ""} }
    \cup { [ValidPayment EXCEPT !.transactionId = t] : t \in {Undefined, ""} }
    \cup { [ValidPayment EXCEPT !.customer = NoCustomer] }
    \cup { [ValidPayment EXCEPT !.customer[f] = v] :
             f \in {"firstName", "lastName", "email", "phone"},
             v \in {Undefined, ""} }
    \cup { [ValidPayment EXCEPT !.returnParams = "p=1"] }
    \cup { [ValidPayment EXCEPT !.transactionId = Undefined,
                                !.customer.email = Undefined] }
    \cup { UndefinedPayment }

createABACheckout(config, payment) ==
  /\ \E now \in {FormatUTC(clock)} :
       out' = createABACheckoutResult(config, payment, env, now)
  /\ UNCHANGED <<client, env, clock, pending, console, remembered>>

InitABA ==
  /\ client \in P002DefaultClients
  /\ env \in { NoEnv,
               [sandbox |-> "https://sb.example/pay",
                production |-> "https://prod.example/pay"] }
  /\ clock = ClockAt(0)
  /\ out = NoOut
  /\ pending = 0
  /\ console = "none"
  /\ remembered = NoCall

NextABA ==
  \/ Tick
  \/ \E config \in ABAConfigs, payment \in ABAPayments :
       createABACheckout(config, payment)

SpecABA == InitABA /\ [][NextABA]_vars

ABADone == out.op = "createABACheckout"

\* names of the required request fields that are absent or empty
MissingPaymentFields(payment) ==
  { f \in {"transactionId", "amount"} : Falsy(payment[f]) }
    \cup (IF payment.customer.present
          THEN { f \in {"firstName", "lastName", "email", "phone"} :
                   Falsy(payment.customer[f]) }
          ELSE {"customer"})

\* names of the required configuration fields that are absent or empty
MissingConfigFields(config) ==
  { f \in {"baseUrl", "merchantId", "apiKey"} : Falsy(config[f]) }

NothingSigned == out.hash = "" /\ out.form = <<>> /\ out.hmacCalls = 0

\* C13: with no URL override and no base URL a checkout resolves to the
\* hardcoded sandbox URL when the sandbox flag is true and to the hardcoded
\* production URL when it is false.
C13_DefaultUrls ==
  ( /\ ABADone
    /\ env = NoEnv
    /\ MissingConfigFields(out.cfg) = {"baseUrl"}
    /\ Falsy(out.cfg.checkoutUrl)
    /\ MissingPaymentFields(out.pay) = {} )
    => out.url = (IF out.cfg.sandbox = "false" THEN PRODUCTION_CHECKOUT_URL
                  ELSE SANDBOX_CHECKOUT_URL)

\* C14: a configuration with checkoutUrl, merchantId and apiKey and no
\* baseUrl makes createABACheckout succeed for a valid request, with the
\* configured checkoutUrl as the returned checkoutUrl.
C14_CheckoutUrlConfig ==
  ( /\ ABADone
    /\ ~Falsy(out.cfg.checkoutUrl)
    /\ MissingConfigFields(out.cfg) = {"baseUrl"}
    /\ MissingPaymentFields(out.pay) = {} )
    => out.success /\ out.url = out.cfg.checkoutUrl

\* C16: an amount of "0.00" or "-5" is rejected with success=false and no
\* signed form; an amount of "10.50" is accepted.
C16_AmountValidated ==
  ABADone =>
    /\ out.pay.amount \in {"0.00", "-5"} => (~out.success /\ NothingSigned)
    /\ ( /\ out.pay.amount = "10.50"
         /\ MissingConfigFields(out.cfg) = {}
         /\ MissingPaymentFields(out.pay) = {} ) => out.success

\* C17: with apiKey missing from the configuration createABACheckout
\* reports the configuration error and has computed no HMAC, for every
\* payment request (configuration and request being objects).
C17_NoKeyNoHmac ==
  (ABADone /\ out.cfg.present /\ out.pay.present /\ Falsy(out.cfg.apiKey))
    => /\ ~out.success
       /\ out.error = ConfigMissingMsg
       /\ NothingSigned

C17_Witness ==
  /\ ABADone
  /\ out.cfg = [ValidConfig EXCEPT !.apiKey = Undefined]
  /\ out.pay = ValidPayment
  /\ ~out.success

\* C18: when a required field of the request object is absent or empty,
\* createABACheckout returns a failure result and produces neither a
\* signature nor a form.
C18_RequiredFields ==
  (ABADone /\ out.pay.present /\ MissingPaymentFields(out.pay) # {})
    => /\ ~out.success
       /\ out.status = "returned"
       /\ NothingSigned
       /\ out.url = ""

C18_Witness ==
  /\ ABADone
  /\ out.cfg = ValidConfig
  /\ out.pay = [ValidPayment EXCEPT !.customer.email = ""]
  /\ out.error = CustomerMissingMsg

\* C19: a failure result names every missing field, also when fields of
\* several groups are missing at once.
C19_AllFieldsNamed ==
  (ABADone /\ out.cfg.present /\ out.pay.present /\ ~out.success)
    => \A f \in MissingConfigFields(out.cfg) \cup MissingPaymentFields(out.pay) :
         Includes(out.error, f)

\* C24: a returned result is consistent with its success flag: on success
\* htmlForm is not empty, checkoutUrl is the action URL of that form,
\* transactionId is the request's and there is no error; on failure
\* htmlForm and checkoutUrl are empty and error holds a message.
C24_ResultConsistent ==
  (ABADone /\ out.status = "returned")
    => /\ out.transactionId = out.pay.transactionId
       /\ IF out.success
          THEN /\ out.form # <<>>
               /\ ~Falsy(out.action)
               /\ out.url = out.action
               /\ out.error = Undefined
          ELSE /\ out.form = <<>> /\ out.action = ""
               /\ out.url = ""
               /\ ~Falsy(out.error)

C24_Witness ==
  /\ ABADone /\ out.success
  /\ env.sandbox = "https://sb.example/pay"
  /\ out.url = "https://sb.example/pay"
  /\ out.action = "https://sb.example/pay"
  /\ out.transactionId = "tran1234"

\* C28: createABACheckout never throws: for every config and payment
\* argument, an undefined one included, it returns a PaymentResponse, with
\* success=false when something went wrong.
C28_NeverThrows ==
  ABADone
    => /\ out.status = "returned"
       /\ out.ret = "PaymentResponse"
       /\ (~out.cfg.present \/ ~out.pay.present) => ~out.success

(***************************************************************************)
(* One client shared by interleaved calls: purchases are built while the   *)
(* request of a payment link is still in flight.                           *)
(***************************************************************************)
SharedBaseUrls ==
  { "", "https://checkout.payway.com.kh/", "pay.kh",
    "https://pay.kh/api/payment-gateway/v1//" }

SharedClients ==
  { Constructor(MerchantId, ApiKey, RsaKey1024, b) :
      b \in {Undefined, "https://checkout.payway.com.kh/", "https://pay.kh//"} }
    \cup { Constructor_p002(P002Config(b, RsaKey1024, Undefined)) :
             b \in SharedBaseUrls }

SharedLinkInputs ==
  [title : {"T"}, amount : {1000}, currency : {"KHR", "USD"},
   return_url : {"u.kh/r"}]

InitShared ==
  /\ client \in SharedClients
  /\ env = NoEnv
  /\ clock = ClockAt(0)
  /\ out = NoOut
  /\ pending = 0
  /\ console = "none"
  /\ remembered = NoCall

NextShared ==
  \/ Tick
  \/ FetchSettle
  \/ \E pd \in SignPurchaseInputs : createTransaction(pd)
  \/ \E pd \in ResolverInputs, a \in UseSandboxArgs : createCheckout(pd, a)
  \/ \E args \in SharedLinkInputs : createPaymentLink(args)
  \/ \E args \in SharedLinkInputs : createPaymentLink_p002(args)

SpecShared == InitShared /\ [][NextShared]_vars

\* the payload of the latest call is the one its own inputs, the client's
\* configuration and its clock reading determine
PayloadAlone ==
  /\ out.op \in {"createTransaction", "createCheckout"}
       => /\ out.key = client.api_key
          /\ out.req.merchant_id = client.merchant_id
          /\ out.hash = HmacSha512Base64(client.api_key,
                           CanonicalData(out.req, out.op = "createTransaction"))
          /\ FormValue(out.form, "hash") = out.hash
          /\ FormValue(out.form, "merchant_id") = client.merchant_id
          /\ FormValue(out.form, "req_time") = out.req.req_time
  /\ out.op = "createTransaction"
       => out.action = client.base_url \o "/api/payment-gateway/v1/payments/purchase"
  /\ (out.op = "createPaymentLink" /\ out.status = "returned")
       => /\ out.signed = << out.form[1][2], client.merchant_id, out.form[3][2] >>
          /\ out.form[4][2] = HmacSha512Base64(client.api_key, Join(out.signed))
          /\ \E r \in Paddings :
                out.form[3][2] =
                  ToBase64(publicEncrypt(client.rsa_public_key, out.encInput, r).bytes)

\* C21: calls share no mutable state: no step changes the client's merchant
\* id, API key, RSA key or base URL, and after every interleaving of
\* createTransaction, createCheckout and createPaymentLink the payload of
\* the latest call is the one it produces alone.
C21_NoSharedState == []PayloadAlone /\ [][client' = client]_vars

C21_Witness ==
  /\ out.op = "createTransaction"
  /\ pending = 1
  /\ ClockIndex(clock) > 0
  /\ out.req.firstname = "John"

\* the part of a URL after its protocol separator
AfterProtocol(url) ==
  IF StartsWith(url, "https://") THEN SubSeq(url, 9, Len(url))
  ELSE IF StartsWith(url, "http://") THEN SubSeq(url, 8, Len(url))
  ELSE url

SlashFree(url) == ~EndsWith(url, "/") /\ ~Includes(AfterProtocol(url), "//")

\* the same client configured with base URL b
WithBaseUrl(b) ==
  IF client.version = "index"
  THEN Constructor(client.merchant_id, client.api_key, client.rsa_public_key, b)
  ELSE [client EXCEPT !.base_url = b]

\* the URL the latest purchase call gets from a client configured with b
UrlWith(b) ==
  IF out.op = "createTransaction"
  THEN WithBaseUrl(b).base_url \o "/api/payment-gateway/v1/payments/purchase"
  ELSE getCheckoutApiUrl(WithBaseUrl(b), env, out.useSandbox = "true")

\* the configured base URL less one trailing slash (the constructor of
\* index.ts has removed it already)
StrippedBase ==
  IF client.version = "index" THEN client.base_url
  ELSE WithoutLastSlash(client.base_url)

C30_LinkTargetFixed ==
  /\ (out.op = "createPaymentLink" /\ out.sent)
       => out.url = "https://checkout-sandbox.payway.com.kh"
                      \o "/api/merchant-portal/merchant-access/payment-link/create"
  /\ out.op = "createTransaction"
       => out.action = client.base_url \o "/api/payment-gateway/v1/payments/purchase"

C30_Witness ==
  /\ out.op = "createPaymentLink" /\ out.sent
  /\ client.version = "index"
  /\ client.base_url = "https://checkout.payway.com.kh"
  /\ out.url = PaymentLinkUrl

====
